---- MODULE Spec2Model ----
(***************************************************************************)
(* Model of the code-growth scripts: code_growth_total.main (the CSV       *)
(* aggregator) and create_loc_csv (the per-repository series builder).     *)
(* Strings are sequences of one-character strings, so that formatting,     *)
(* parsing, comparison and file offsets are computed, not assumed.         *)
(***************************************************************************)
EXTENDS Integers, Sequences, FiniteSets, TLC

\* ---------------------------------------------------------------- bounds
\* most input files one aggregation run lists
MaxFiles == 2
\* most data rows one aggregation run reads, over all its input files
MaxRows == 2

\* ------------------------------------------------------------------ text
Digits == <<"0","1","2","3","4","5","6","7","8","9">>
Upper == <<"A","B","C","D","E","F","G","H","I","J","K","L","M",
           "N","O","P","Q","R","S","T","U","V","W","X","Y","Z">>
Lower == <<"a","b","c","d","e","f","g","h","i","j","k","l","m",
           "n","o","p","q","r","s","t","u","v","w","x","y","z">>

IndexIn(c, seq) == CHOOSE i \in 1..Len(seq) : seq[i] = c

IsDigit(c) == \E i \in 1..10 : Digits[i] = c

\* code point of a character (Python compares str by code point)
Ord(c) ==
  IF IsDigit(c) THEN 47 + IndexIn(c, Digits)
  ELSE IF \E i \in 1..26 : Upper[i] = c THEN 64 + IndexIn(c, Upper)
  ELSE IF \E i \in 1..26 : Lower[i] = c THEN 96 + IndexIn(c, Lower)
  ELSE CASE c = "\n" -> 10 [] c = "\r" -> 13 [] c = " " -> 32
         [] c = "+" -> 43 [] c = "," -> 44 [] c = "-" -> 45
         [] c = "/" -> 47 [] c = ":" -> 58 [] c = "_" -> 95

\* a < b for Python str
RECURSIVE StrLessFrom(_, _, _)
StrLessFrom(a, b, i) ==
  IF i > Len(a) THEN i <= Len(b)
  ELSE IF i > Len(b) THEN FALSE
  ELSE IF Ord(a[i]) # Ord(b[i]) THEN Ord(a[i]) < Ord(b[i])
  ELSE StrLessFrom(a, b, i + 1)

StrLess(a, b) == StrLessFrom(a, b, 1)

\* sorted(S, reverse=True)
RECURSIVE SortedDescending(_)
SortedDescending(S) ==
  IF S = {} THEN <<>>
  ELSE LET m == CHOOSE x \in S : \A y \in S \ {x} : StrLess(y, x)
       IN <<m>> \o SortedDescending(S \ {m})

\* sorted(S) for a collection of distinct str
RECURSIVE Sorted(_)
Sorted(S) ==
  IF S = {} THEN <<>>
  ELSE LET m == CHOOSE x \in S : \A y \in S \ {x} : StrLess(x, y)
       IN <<m>> \o Sorted(S \ {m})

\* str.strip() restricted to the blank
RECURSIVE Strip(_)
Strip(s) ==
  IF s = <<>> THEN s
  ELSE IF s[1] = " " THEN Strip(Tail(s))
  ELSE IF s[Len(s)] = " " THEN Strip(SubSeq(s, 1, Len(s) - 1))
  ELSE s

Unsigned(s) == IF s # <<>> /\ s[1] \in {"+", "-"} THEN Tail(s) ELSE s

\* int(s) does not raise ValueError
IsIntLiteral(s) ==
  LET u == Unsigned(Strip(s))
  IN u # <<>> /\ \A i \in 1..Len(u) : IsDigit(u[i])

RECURSIVE DigitsValue(_, _)
DigitsValue(u, acc) ==
  IF u = <<>> THEN acc
  ELSE DigitsValue(Tail(u), 10 * acc + (Ord(u[1]) - 48))

\* int(s)
ParseInt(s) ==
  LET t == Strip(s)
      v == DigitsValue(Unsigned(t), 0)
  IN IF t[1] = "-" THEN 0 - v ELSE v

\* --------------------------------------------- code_growth_total.py
INITIAL_DATE == <<"2","0","2","4","-","1","1","-","0","1"," ","0","0",":","0","0",":","0","0">>
TOTAL_LOC == <<"t","o","t","a","l","_","l","o","c">>
DATE == <<"d","a","t","e">>

\* defaultdict(int): a missing key reads as 0
Get(data, key) == IF key \in DOMAIN data THEN data[key] ELSE 0

\* combined_data[date][key] = n
AddToOverwrites(cd, date, key, n) ==
  LET inner == IF date \in DOMAIN cd THEN cd[date] ELSE <<>>
      inner2 == [k \in DOMAIN inner \cup {key} |-> IF k = key THEN n ELSE inner[k]]
  IN [d \in DOMAIN cd \cup {date} |-> IF d = date THEN inner2 ELSE cd[d]]

\* combined_data[date][key] += n
AddTo(cd, date, key, n) ==
  LET inner == IF date \in DOMAIN cd THEN cd[date] ELSE <<>>
      inner2 == [k \in DOMAIN inner \cup {key} |->
                   IF k = key THEN Get(inner, key) + n ELSE inner[k]]
  IN [d \in DOMAIN cd \cup {date} |-> IF d = date THEN inner2 ELSE cd[d]]

\* int(f) if f else 0
IntOrZero(f) == IF f # <<>> THEN ParseInt(f) ELSE 0

\* some int() of the row raises ValueError
RowRaises(languages, row) ==
  \/ row[5] # <<>> /\ ~IsIntLiteral(row[5])
  \/ row[6] # <<>> /\ ~IsIntLiteral(row[6])
  \/ \E p \in 1..Len(languages) :
       p + 6 <= Len(row) /\ row[p + 6] # <<>> /\ ~IsIntLiteral(row[p + 6])

\* the loop over enumerate(languages), from position p on
RECURSIVE AddLanguages(_, _, _, _)
AddLanguages(cd, languages, row, p) ==
  IF p > Len(languages) THEN cd
  ELSE IF p + 6 <= Len(row) /\ row[p + 6] # <<>>
       THEN AddLanguages(AddTo(cd, row[3], languages[p], ParseInt(row[p + 6])),
                         languages, row, p + 1)
       ELSE AddLanguages(cd, languages, row, p + 1)

\* a date already present keeps its first row
ProcessRowFirstWins(cd, languages, row) ==
  IF row[3] \in DOMAIN cd THEN cd
  ELSE AddLanguages(AddTo(cd, row[3], TOTAL_LOC, IntOrZero(row[5])), languages, row, 1)

\* body of the row loop for a row of at least 6 fields
ProcessRow(cd, languages, row) ==
  AddLanguages(AddTo(cd, row[3], TOTAL_LOC, IntOrZero(row[5])), languages, row, 1)

\* the row of fewer than 6 fields is skipped
IsShort(row) == Len(row) < 6

Zeros(n) == [i \in 1..n |-> 0]

OutHeader(sorted_languages) == <<DATE, TOTAL_LOC>> \o sorted_languages

InitialRow(sorted_languages) == <<INITIAL_DATE, 0>> \o Zeros(Len(sorted_languages))

\* the initial date is not filtered out
DatesToWriteKeepsInitial(cd) == Sorted(DOMAIN cd)

DatesToWrite(cd) == Sorted(DOMAIN cd \ {INITIAL_DATE})

DataRow(cd, sorted_languages, date) ==
  <<date, Get(cd[date], TOTAL_LOC)>> \o
  [i \in 1..Len(sorted_languages) |-> Get(cd[date], sorted_languages[i])]

NoOutput == [written |-> FALSE, header |-> <<>>, rows |-> <<>>]

VARIABLES
  agg_pc,         \* position of code_growth_total.main
  csv_files,      \* names of the input files still to process
  languages,      \* header[6:] of the file being read
  cur_rows,       \* rows the reader of the open file has not yielded yet
  combined_data,  \* date -> key -> int
  all_languages,  \* set of language names
  sorted_dates,   \* dates still to be written
  output,         \* code_growth_total.csv: header and rows given to writerow
  inputs          \* the input files as read so far, in processing order

aggVars == <<agg_pc, csv_files, languages, cur_rows, combined_data,
             all_languages, sorted_dates, output, inputs>>

VARIABLES
  loc_pc,            \* position of create_loc_csv.main
  REPOS,             \* the repository names, from the environment
  repo_idx,          \* position of main's loop over REPOS
  commits,           \* commits of the repository in the hands of a commit loop
  commit_idx,        \* position of that loop
  language_set,      \* process_repository: languages discovered so far
  all_repo_data,     \* main: the repositories kept, in insertion order
  loc_all_languages, \* main: all_languages
  language_columns,  \* sorted(all_languages), as handed to generate_csv
  gen_idx,           \* position of generate_csv's loop over all_repo_data
  prev_total_lines,  \* generate_csv
  repo_file,         \* text buffered in the write-mode handle of the repository file
  disk,              \* repo_short_name -> text of code_growth-<repo_short_name>.csv
  combined,          \* rows given to combined_writer (code_growth.csv)
  commits_seen,      \* commits listed so far in this run
  exit_code          \* -1 while running, then the exit code of the process

locVars == <<loc_pc, REPOS, repo_idx, commits, commit_idx, language_set, all_repo_data,
             loc_all_languages, language_columns, gen_idx, prev_total_lines,
             repo_file, disk, combined, commits_seen, exit_code>>

\* tag-release.py and the calls it makes to utils/git_utils.py
VARIABLES
  tag_pc,       \* position of tag-release.py, or "lib" when git_utils is called directly
  os_name,      \* os.name
  tag_repos,    \* REPOS of tag-release.py
  tag_idx,      \* position of its loop over REPOS
  cwd,          \* the working directory of the process, as a path
  dirs,         \* the directories that exist
  tag_calls     \* the calls made to git_utils so far, with what they returned

tagVars == <<tag_pc, os_name, tag_repos, tag_idx, cwd, dirs, tag_calls>>

vars == <<aggVars, locVars, tagVars>>

AggInit ==
  /\ agg_pc = "start"
  /\ csv_files = <<>>
  /\ languages = <<>>
  /\ cur_rows = <<>>
  /\ combined_data = <<>>
  /\ all_languages = {}
  /\ sorted_dates = <<>>
  /\ output = NoOutput
  /\ inputs = <<>>

\* ---- input files of an aggregation run (fields as the csv reader yields them)
LangC == <<"C">>
LangGo == <<"G","o">>
LangLc == <<"c">>
D0 == <<"2","0","2","4","-","1","0","-","3","1"," ","2","3",":","5","9",":","5","9">>
D1 == <<"2","0","2","4","-","1","2","-","0","1"," ","1","0",":","0","0",":","0","0">>
D2 == <<"2","0","2","5","-","0","1","-","1","5"," ","0","9",":","3","0",":","0","0">>
RepoAb == <<"a","b">>
Hash1 == <<"c","0","0","0","0","0","1">>
AuthorX == <<"x">>

HeaderPool == { <<LangC>>, <<LangLc, LangGo>> }

RowPool ==
  { <<RepoAb, Hash1, D1>>,
    <<RepoAb, Hash1, D0, AuthorX, <<"2">>, <<"2">>, <<"2">>>>,
    <<RepoAb, Hash1, INITIAL_DATE, AuthorX, <<"1">>, <<"1">>, <<"1">>>>,
    <<RepoAb, Hash1, D1, AuthorX, <<"3">>, <<"3">>, <<"1">>, <<"2">>>>,
    <<RepoAb, Hash1, D2, AuthorX, <<>>, <<"-","1">>, <<>>, <<"1","0">>>> }

RowsRead == IF inputs = <<>> THEN 0
            ELSE LET n[i \in 0..Len(inputs)] ==
                       IF i = 0 THEN 0 ELSE n[i - 1] + Len(inputs[i].rows)
                 IN n[Len(inputs)]

RECURSIVE SeqsUpTo(_, _)
SeqsUpTo(S, n) ==
  IF n = 0 THEN { <<>> }
  ELSE LET shorter == SeqsUpTo(S, n - 1)
       IN shorter \cup { Append(s, e) : s \in { t \in shorter : Len(t) = n - 1 }, e \in S }

FileNames == <<"code_growth-1.csv", "code_growth-2.csv", "code_growth-3.csv">>

\* no early return: the header and the initial row are written
AggNoFilesWritesAnchor ==
  /\ UNCHANGED <<locVars, tagVars>>
  /\ agg_pc = "start"
  /\ agg_pc' = "returned"
  /\ output' = [written |-> TRUE, header |-> OutHeader(<<>>), rows |-> << InitialRow(<<>>) >>]
  /\ UNCHANGED <<csv_files, languages, cur_rows, combined_data, all_languages,
                 sorted_dates, inputs>>

\* os.listdir finds no matching file: main returns before creating anything
AggNoFiles ==
  /\ UNCHANGED <<locVars, tagVars>>
  /\ agg_pc = "start"
  /\ agg_pc' = "returned"
  /\ UNCHANGED <<csv_files, languages, cur_rows, combined_data, all_languages,
                 sorted_dates, output, inputs>>

\* os.listdir finds n matching files
AggListDir ==
  /\ UNCHANGED <<locVars, tagVars>>
  /\ agg_pc = "start"
  /\ \E n \in 1..MaxFiles :
       csv_files' = SubSeq(FileNames, 1, n)
  /\ agg_pc' = "files"
  /\ UNCHANGED <<languages, cur_rows, combined_data, all_languages,
                 sorted_dates, output, inputs>>

\* all_languages is replaced by the languages of the file
OpenFileReplacesLanguages(language_cols, rows) ==
  /\ UNCHANGED <<locVars, tagVars>>
  /\ languages' = language_cols
  /\ all_languages' = { language_cols[i] : i \in 1..Len(language_cols) }
  /\ cur_rows' = rows
  /\ inputs' = Append(inputs, [languages |-> language_cols, rows |-> rows])
  /\ csv_files' = Tail(csv_files)
  /\ agg_pc' = "rows"
  /\ UNCHANGED <<combined_data, sorted_dates, output>>

\* open the next file, read its header, update all_languages
OpenFile(language_cols, rows) ==
  /\ UNCHANGED <<locVars, tagVars>>
  /\ languages' = language_cols
  /\ all_languages' = all_languages \cup { language_cols[i] : i \in 1..Len(language_cols) }
  /\ cur_rows' = rows
  /\ inputs' = Append(inputs, [languages |-> language_cols, rows |-> rows])
  /\ csv_files' = Tail(csv_files)
  /\ agg_pc' = "rows"
  /\ UNCHANGED <<combined_data, sorted_dates, output>>

AggOpen ==
  /\ agg_pc = "files"
  /\ csv_files # <<>>
  /\ \E language_cols \in HeaderPool :
     \E rows \in SeqsUpTo(RowPool, MaxRows - RowsRead) :
       OpenFile(language_cols, rows)

\* a row of fewer than 6 fields: break
AggSkipRowBreaks ==
  /\ UNCHANGED <<locVars, tagVars>>
  /\ agg_pc = "rows"
  /\ cur_rows # <<>>
  /\ IsShort(Head(cur_rows))
  /\ cur_rows' = <<>>
  /\ UNCHANGED <<agg_pc, csv_files, languages, combined_data, all_languages,
                 sorted_dates, output, inputs>>

\* a row of fewer than 6 fields: continue
AggSkipRow ==
  /\ UNCHANGED <<locVars, tagVars>>
  /\ agg_pc = "rows"
  /\ cur_rows # <<>>
  /\ IsShort(Head(cur_rows))
  /\ cur_rows' = Tail(cur_rows)
  /\ UNCHANGED <<agg_pc, csv_files, languages, combined_data, all_languages,
                 sorted_dates, output, inputs>>

\* a row of at least 6 fields is accumulated; a ValueError ends the run
AggAddRow ==
  /\ UNCHANGED <<locVars, tagVars>>
  /\ agg_pc = "rows"
  /\ cur_rows # <<>>
  /\ ~IsShort(Head(cur_rows))
  /\ IF RowRaises(languages, Head(cur_rows))
     THEN /\ agg_pc' = "crashed"
          /\ UNCHANGED <<cur_rows, combined_data>>
     ELSE /\ combined_data' = ProcessRow(combined_data, languages, Head(cur_rows))
          /\ cur_rows' = Tail(cur_rows)
          /\ UNCHANGED agg_pc
  /\ UNCHANGED <<csv_files, languages, all_languages, sorted_dates, output, inputs>>

\* the reader is exhausted: next file, or on to the output
AggEndFile ==
  /\ UNCHANGED <<locVars, tagVars>>
  /\ agg_pc = "rows"
  /\ cur_rows = <<>>
  /\ agg_pc' = IF csv_files = <<>> THEN "emit" ELSE "files"
  /\ UNCHANGED <<csv_files, languages, cur_rows, combined_data, all_languages,
                 sorted_dates, output, inputs>>

\* open the output, write the header and the initial row, sort the dates
AggWriteHead ==
  /\ UNCHANGED <<locVars, tagVars>>
  /\ agg_pc = "emit"
  /\ LET sorted_languages == Sorted(all_languages)
     IN output' = [written |-> TRUE,
                   header |-> OutHeader(sorted_languages),
                   rows |-> << InitialRow(sorted_languages) >>]
  /\ sorted_dates' = DatesToWrite(combined_data)
  /\ agg_pc' = "write"
  /\ UNCHANGED <<csv_files, languages, cur_rows, combined_data, all_languages, inputs>>

\* one iteration of the loop over sorted_dates
AggWriteRow ==
  /\ UNCHANGED <<locVars, tagVars>>
  /\ agg_pc = "write"
  /\ sorted_dates # <<>>
  /\ output' = [output EXCEPT !.rows =
                  Append(@, DataRow(combined_data, Sorted(all_languages), Head(sorted_dates)))]
  /\ sorted_dates' = Tail(sorted_dates)
  /\ UNCHANGED <<agg_pc, csv_files, languages, cur_rows, combined_data,
                 all_languages, inputs>>

\* the output is closed and main returns
AggFinish ==
  /\ UNCHANGED <<locVars, tagVars>>
  /\ agg_pc = "write"
  /\ sorted_dates = <<>>
  /\ agg_pc' = "done"
  /\ UNCHANGED <<csv_files, languages, cur_rows, combined_data, all_languages,
                 sorted_dates, output, inputs>>

AggRun == AggSkipRow \/ AggAddRow \/ AggEndFile \/ AggWriteHead \/ AggWriteRow \/ AggFinish

\* main as a function of the files, in the order given
RECURSIVE FoldRows(_, _, _)
FoldRows(cd, language_cols, rows) ==
  IF rows = <<>> THEN cd
  ELSE FoldRows(IF IsShort(Head(rows)) THEN cd
                ELSE ProcessRow(cd, language_cols, Head(rows)),
                language_cols, Tail(rows))

RECURSIVE FoldFiles(_, _)
FoldFiles(cd, files) ==
  IF files = <<>> THEN cd
  ELSE FoldFiles(FoldRows(cd, Head(files).languages, Head(files).rows), Tail(files))

Aggregate(files) ==
  LET cd == FoldFiles(<<>>, files)
      sl == Sorted(UNION { { files[f].languages[i] : i \in 1..Len(files[f].languages) }
                           : f \in 1..Len(files) })
      ds == DatesToWrite(cd)
  IN [written |-> TRUE,
      header |-> OutHeader(sl),
      rows |-> << InitialRow(sl) >> \o [i \in 1..Len(ds) |-> DataRow(cd, sl, ds[i])]]

\* --------------------------------------------------- create_loc_csv.py
\* most commits one run of create_loc_csv lists, over all its repositories
MaxCommits == 3

\* str(n) for an int
RECURSIVE StrNat(_)
StrNat(n) ==
  IF n < 10 THEN << Digits[n + 1] >>
  ELSE StrNat(n \div 10) \o << Digits[(n % 10) + 1] >>

Str(n) == IF n < 0 THEN <<"-">> \o StrNat(0 - n) ELSE StrNat(n)

\* csv.writer.writerow: the fields joined by "," and ended by "\r\n"
RECURSIVE JoinFields(_)
JoinFields(fields) ==
  IF fields = <<>> THEN <<>>
  ELSE IF Len(fields) = 1 THEN fields[1]
  ELSE fields[1] \o <<",">> \o JoinFields(Tail(fields))

FormatRow(fields) == JoinFields(fields) \o <<"\r", "\n">>

\* the k-th smallest element of a set of numbers
Kth(S, k) == CHOOSE v \in S : Cardinality({ w \in S : w < v }) = k - 1

\* the pieces of s between the positions in cuts
Pieces(s, cuts) ==
  LET n == Cardinality(cuts)
      start(k) == IF k = 1 THEN 1 ELSE Kth(cuts, k - 1) + 1
      stop(k) == IF k <= n THEN Kth(cuts, k) - 1 ELSE Len(s)
  IN [k \in 1..(n + 1) |-> SubSeq(s, start(k), stop(k))]

\* where a record ends: at "\n", or at "\r" not followed by "\n"
RecordEnds(text) ==
  { i \in 1..Len(text) :
      \/ text[i] = "\n"
      \/ text[i] = "\r" /\ (i = Len(text) \/ text[i + 1] # "\n") }

\* a line without the "\r" of its "\r\n"
StripCR(line) ==
  IF line # <<>> /\ line[Len(line)] = "\r" THEN SubSeq(line, 1, Len(line) - 1) ELSE line

\* the fields of a line; an empty line is the empty record
Fields(line) ==
  IF line = <<>> THEN <<>> ELSE Pieces(line, { i \in 1..Len(line) : line[i] = "," })

\* csv.reader over a text
ParseCSV(text) ==
  LET lines == Pieces(text, RecordEnds(text))
      n == Len(lines)
      kept == IF lines[n] = <<>> THEN SubSeq(lines, 1, n - 1) ELSE lines
  IN [k \in 1..Len(kept) |-> Fields(StripCR(kept[k]))]

\* repo_name.split("/")[-1]
RECURSIVE LastSegment(_, _)
LastSegment(name, i) ==
  IF i = 0 \/ name[i] = "/" THEN SubSeq(name, i + 1, Len(name))
  ELSE LastSegment(name, i - 1)

ShortName(name) == LastSegment(name, Len(name))

base_columns ==
  << <<"r","e","p","o","_","n","a","m","e">>,
     <<"c","o","m","m","i","t","_","h","a","s","h">>,
     <<"d","a","t","e","t","i","m","e">>,
     <<"a","u","t","h","o","r">>,
     <<"l","i","n","e","s","_","o","f","_","c","o","d","e">>,
     <<"d","e","l","t","a">> >>

INITIAL == <<"i","n","i","t","i","a","l">>
NOT_APPLICABLE == <<"N","/","A">>
HEADER_KEY == <<"h","e","a","d","e","r">>
SUM_KEY == <<"S","U","M">>

\* the names bound at module level in create_loc_csv.py
GlobalNames ==
  { "git", "os", "sys", "csv", "json", "subprocess", "tempfile", "datetime",
    "defaultdict", "Path", "load_environment", "get_required_env", "get_env_list",
    "clone_repository", "GITHUB_USER", "GITHUB_TOKEN", "default_repos", "REPOS",
    "OUTPUT_CSV_FORMAT", "COMBINED_CSV", "INITIAL_DATE", "process_repository",
    "main", "generate_csv" }

\* ---- repositories, commits and what cloc counts in a commit's tree
RepoNameAb == <<"u","/","a","b">>
RepoNameCd == <<"u","/","c","d">>
RepoLists == { <<RepoNameAb>>, <<RepoNameAb, RepoNameCd>> }

TreePool == { (LangC :> 1) @@ (LangGo :> 2), (LangC :> 12) }

\* hexsha of the k-th commit (its first 8 characters)
Hexsha(k) == <<"c","0","f","f","e","e", Digits[k + 1], "9">>

\* datetime.fromtimestamp(t).strftime("%Y-%m-%d %H:%M:%S"), for t the k-th
\* day of December 2024 at 10:00:00
FormatTimestamp(k) ==
  <<"2","0","2","4","-","1","2","-","0", Digits[k + 1], " ","1","0",":","0","0",":","0","0">>

CommitsOf(trees) ==
  [k \in 1..Len(trees) |->
     [hexsha |-> Hexsha(k), committed_date |-> k, author |-> AuthorX, tree |-> trees[k]]]

RECURSIVE SumCodes(_, _)
SumCodes(codes, keys) ==
  IF keys = {} THEN 0
  ELSE LET k == CHOOSE z \in keys : TRUE IN codes[k] + SumCodes(codes, keys \ {k})

\* json.loads of cloc's output for a tree
ClocData(tree) ==
  [k \in DOMAIN tree \cup {HEADER_KEY, SUM_KEY} |->
     IF k \in DOMAIN tree THEN tree[k]
     ELSE IF k = SUM_KEY THEN SumCodes(tree, DOMAIN tree) ELSE 0]

\* the keys of cloc_data that are languages
ClocLanguages(cloc_data) == DOMAIN cloc_data \ {HEADER_KEY, SUM_KEY}

SeqToSet(q) == { q[i] : i \in 1..Len(q) }

\* lang_lines after the loop over cloc_data
LangLines(cloc_data, columns) ==
  [lang \in SeqToSet(columns) |->
     IF lang \in ClocLanguages(cloc_data) THEN cloc_data[lang] ELSE 0]

\* a total over every language cloc reports
TotalLinesOfAllLanguages(cloc_data, columns) ==
  SumCodes(cloc_data, ClocLanguages(cloc_data))

\* total_lines after the loop over cloc_data
TotalLines(cloc_data, columns) ==
  SumCodes(cloc_data, ClocLanguages(cloc_data) \cap SeqToSet(columns))

\* a delta that never looks at the previous total
DeltaIgnoresPrevious(i, total_lines, prev) == total_lines

\* delta = total_lines - prev_total_lines if i > 0 else total_lines
Delta(i, total_lines, prev) == IF i > 0 THEN total_lines - prev ELSE total_lines

CsvHeader(columns) == base_columns \o columns

AnchorRow(repo_short_name, columns) ==
  <<repo_short_name, INITIAL, INITIAL_DATE, NOT_APPLICABLE, Str(0), Str(0)>>
    \o [k \in 1..Len(columns) |-> Str(0)]

RowData(repo_short_name, commit, i, prev, columns) ==
  LET cloc_data == ClocData(commit.tree)
      lang_lines == LangLines(cloc_data, columns)
      total_lines == TotalLines(cloc_data, columns)
  IN <<repo_short_name, SubSeq(commit.hexsha, 1, 7), FormatTimestamp(commit.committed_date),
       commit.author, Str(total_lines), Str(Delta(i, total_lines, prev))>>
       \o [k \in 1..Len(columns) |-> Str(lang_lines[columns[k]])]

\* open(path, "w"): the file is truncated; what is written stays in the handle
SetFile(d, name, text) ==
  [n \in DOMAIN d \cup {name} |-> IF n = name THEN text ELSE d[n]]

\* closing the write-mode handle writes its buffer at its own position, 0
CloseWriteHandle(text, buffered) ==
  buffered \o SubSeq(text, Len(buffered) + 1, Len(text))

\* the append-mode handle writes at the end of the file when it is closed
AppendToFile(text, written) == text \o written

LocInit ==
  /\ loc_pc = "main"
  /\ REPOS \in RepoLists
  /\ repo_idx = 1
  /\ commits = <<>>
  /\ commit_idx = 0
  /\ language_set = {}
  /\ all_repo_data = <<>>
  /\ loc_all_languages = {}
  /\ language_columns = <<>>
  /\ gen_idx = 0
  /\ prev_total_lines = 0
  /\ repo_file = <<>>
  /\ disk = <<>>
  /\ combined = <<>>
  /\ commits_seen = 0
  /\ exit_code = -1

\* create_loc_csv is not part of the run
LocOff ==
  /\ loc_pc = "off"
  /\ REPOS = <<>>
  /\ repo_idx = 1
  /\ commits = <<>>
  /\ commit_idx = 0
  /\ language_set = {}
  /\ all_repo_data = <<>>
  /\ loc_all_languages = {}
  /\ language_columns = <<>>
  /\ gen_idx = 0
  /\ prev_total_lines = 0
  /\ repo_file = <<>>
  /\ disk = <<>>
  /\ combined = <<>>
  /\ commits_seen = 0
  /\ exit_code = -1

\* process_repository returns (None, None): the clone failed, or opening the
\* repository, the checkout of its branch or the listing of its commits raised
ProcRepoFails ==
  /\ loc_pc = "main"
  /\ repo_idx <= Len(REPOS)
  /\ repo_idx' = repo_idx + 1
  /\ UNCHANGED <<loc_pc, REPOS, commits, commit_idx, language_set, all_repo_data,
                 loc_all_languages, language_columns, gen_idx, prev_total_lines,
                 repo_file, disk, combined, commits_seen, exit_code>>
  /\ UNCHANGED <<aggVars, tagVars>>

\* process_repository has cloned the repository and listed its commits
ProcRepoOpened ==
  /\ loc_pc = "main"
  /\ repo_idx <= Len(REPOS)
  /\ \E trees \in SeqsUpTo(TreePool, MaxCommits - commits_seen) :
       /\ commits' = CommitsOf(trees)
       /\ commits_seen' = commits_seen + Len(trees)
  /\ language_set' = {}
  /\ commit_idx' = 1
  /\ loc_pc' = "pass1"
  /\ UNCHANGED <<REPOS, repo_idx, all_repo_data, loc_all_languages, language_columns,
                 gen_idx, prev_total_lines, repo_file, disk, combined, exit_code>>
  /\ UNCHANGED <<aggVars, tagVars>>

\* first pass: the checkout of the commit raises, outside the inner try:
\* process_repository returns (None, None)
Pass1CheckoutFails ==
  /\ loc_pc = "pass1"
  /\ commit_idx <= Len(commits)
  /\ loc_pc' = "main"
  /\ repo_idx' = repo_idx + 1
  /\ commits' = <<>>
  /\ commit_idx' = 0
  /\ language_set' = {}
  /\ UNCHANGED <<REPOS, all_repo_data, loc_all_languages, language_columns,
                 gen_idx, prev_total_lines, repo_file, disk, combined, commits_seen,
                 exit_code>>
  /\ UNCHANGED <<aggVars, tagVars>>

\* first pass: cloc or the parse of its output raises: continue
Pass1ClocFails ==
  /\ loc_pc = "pass1"
  /\ commit_idx <= Len(commits)
  /\ commit_idx' = commit_idx + 1
  /\ UNCHANGED <<loc_pc, REPOS, repo_idx, commits, language_set, all_repo_data,
                 loc_all_languages, language_columns, gen_idx, prev_total_lines,
                 repo_file, disk, combined, commits_seen, exit_code>>
  /\ UNCHANGED <<aggVars, tagVars>>

\* first pass: the languages of the commit are added to language_set
Pass1Counted ==
  /\ loc_pc = "pass1"
  /\ commit_idx <= Len(commits)
  /\ language_set' = language_set \cup ClocLanguages(ClocData(commits[commit_idx].tree))
  /\ commit_idx' = commit_idx + 1
  /\ UNCHANGED <<loc_pc, REPOS, repo_idx, commits, all_repo_data,
                 loc_all_languages, language_columns, gen_idx, prev_total_lines,
                 repo_file, disk, combined, commits_seen, exit_code>>
  /\ UNCHANGED <<aggVars, tagVars>>

\* process_repository returns commits, sorted(language_set); main keeps the
\* repository when both are non-empty
Pass1Return ==
  /\ loc_pc = "pass1"
  /\ commit_idx > Len(commits)
  /\ LET repo_languages == Sorted(language_set)
     IN IF commits # <<>> /\ repo_languages # <<>>
        THEN /\ all_repo_data' = Append(all_repo_data,
                                        [repo_name |-> REPOS[repo_idx],
                                         commits |-> commits,
                                         languages |-> repo_languages])
             /\ loc_all_languages' = loc_all_languages \cup SeqToSet(repo_languages)
        ELSE UNCHANGED <<all_repo_data, loc_all_languages>>
  /\ loc_pc' = "main"
  /\ repo_idx' = repo_idx + 1
  /\ commits' = <<>>
  /\ commit_idx' = 0
  /\ language_set' = {}
  /\ UNCHANGED <<REPOS, language_columns, gen_idx, prev_total_lines,
                 repo_file, disk, combined, commits_seen, exit_code>>
  /\ UNCHANGED <<aggVars, tagVars>>

\* main calls generate_csv, which opens the combined file and writes its header
GenStart ==
  /\ loc_pc = "main"
  /\ repo_idx > Len(REPOS)
  /\ language_columns' = Sorted(loc_all_languages)
  /\ combined' = << CsvHeader(Sorted(loc_all_languages)) >>
  /\ gen_idx' = 1
  /\ loc_pc' = "generate"
  /\ UNCHANGED <<REPOS, repo_idx, commits, commit_idx, language_set, all_repo_data,
                 loc_all_languages, prev_total_lines, repo_file, disk, commits_seen,
                 exit_code>>
  /\ UNCHANGED <<aggVars, tagVars>>

repo_short_name == ShortName(all_repo_data[gen_idx].repo_name)

\* what the write-mode handle holds after the header and the initial row
HeaderAndAnchor ==
  FormatRow(CsvHeader(language_columns)) \o
  FormatRow(AnchorRow(repo_short_name, language_columns))

\* generate_csv: header and initial row are written, the second clone fails:
\* continue, which closes the file
GenRepoCloneFails ==
  /\ loc_pc = "generate"
  /\ gen_idx <= Len(all_repo_data)
  /\ combined' = Append(combined, AnchorRow(repo_short_name, language_columns))
  /\ disk' = SetFile(disk, repo_short_name, CloseWriteHandle(<<>>, HeaderAndAnchor))
  /\ gen_idx' = gen_idx + 1
  /\ UNCHANGED <<loc_pc, REPOS, repo_idx, commits, commit_idx, language_set,
                 all_repo_data, loc_all_languages, language_columns, prev_total_lines,
                 repo_file, commits_seen, exit_code>>
  /\ UNCHANGED <<aggVars, tagVars>>

\* generate_csv: header and initial row are written, the clone succeeds and
\* opening it raises, outside every except: the file is closed on the way out
\* of generate_csv and of main
GenRepoOpenFails ==
  /\ loc_pc = "generate"
  /\ gen_idx <= Len(all_repo_data)
  /\ combined' = Append(combined, AnchorRow(repo_short_name, language_columns))
  /\ disk' = SetFile(disk, repo_short_name, CloseWriteHandle(<<>>, HeaderAndAnchor))
  /\ loc_pc' = "exited"
  /\ exit_code' = 1
  /\ UNCHANGED <<REPOS, repo_idx, commits, commit_idx, language_set,
                 all_repo_data, loc_all_languages, language_columns, gen_idx,
                 prev_total_lines, repo_file, commits_seen>>
  /\ UNCHANGED <<aggVars, tagVars>>

\* generate_csv: header and initial row are written, the repository is cloned
\* and opened, the commit loop starts
GenRepoOpened ==
  /\ loc_pc = "generate"
  /\ gen_idx <= Len(all_repo_data)
  /\ combined' = Append(combined, AnchorRow(repo_short_name, language_columns))
  /\ disk' = SetFile(disk, repo_short_name, <<>>)
  /\ repo_file' = HeaderAndAnchor
  /\ commits' = all_repo_data[gen_idx].commits
  /\ commit_idx' = 1
  /\ prev_total_lines' = 0
  /\ loc_pc' = "pass2"
  /\ UNCHANGED <<REPOS, repo_idx, language_set, all_repo_data, loc_all_languages,
                 language_columns, gen_idx, commits_seen, exit_code>>
  /\ UNCHANGED <<aggVars, tagVars>>

\* second pass: checkout, cloc or the parse raises: continue
GenCommitFails ==
  /\ loc_pc = "pass2"
  /\ commit_idx <= Len(commits)
  /\ commit_idx' = commit_idx + 1
  /\ UNCHANGED <<loc_pc, REPOS, repo_idx, commits, language_set, all_repo_data,
                 loc_all_languages, language_columns, gen_idx, prev_total_lines,
                 repo_file, disk, combined, commits_seen, exit_code>>
  /\ UNCHANGED <<aggVars, tagVars>>

\* second pass: the row of the commit is appended through a second handle
\* and given to the combined writer
GenCommitWritten ==
  /\ loc_pc = "pass2"
  /\ commit_idx <= Len(commits)
  /\ LET row_data == RowData(repo_short_name, commits[commit_idx], commit_idx - 1,
                             prev_total_lines, language_columns)
     IN /\ disk' = SetFile(disk, repo_short_name,
                           AppendToFile(disk[repo_short_name], FormatRow(row_data)))
        /\ combined' = Append(combined, row_data)
  /\ prev_total_lines' =
       TotalLines(ClocData(commits[commit_idx].tree), language_columns)
  /\ commit_idx' = commit_idx + 1
  /\ UNCHANGED <<loc_pc, REPOS, repo_idx, commits, language_set, all_repo_data,
                 loc_all_languages, language_columns, gen_idx, repo_file,
                 commits_seen, exit_code>>
  /\ UNCHANGED <<aggVars, tagVars>>

\* the commit loop ends: the with block closes the write-mode handle
GenRepoClose ==
  /\ loc_pc = "pass2"
  /\ commit_idx > Len(commits)
  /\ disk' = SetFile(disk, repo_short_name,
                     CloseWriteHandle(disk[repo_short_name], repo_file))
  /\ repo_file' = <<>>
  /\ commits' = <<>>
  /\ commit_idx' = 0
  /\ prev_total_lines' = 0
  /\ gen_idx' = gen_idx + 1
  /\ loc_pc' = "generate"
  /\ UNCHANGED <<REPOS, repo_idx, language_set, all_repo_data, loc_all_languages,
                 language_columns, combined, commits_seen, exit_code>>
  /\ UNCHANGED <<aggVars, tagVars>>

\* generate_csv closes the combined file, lists the files and returns
GenEnd ==
  /\ loc_pc = "generate"
  /\ gen_idx > Len(all_repo_data)
  /\ loc_pc' = "summary"
  /\ UNCHANGED <<REPOS, repo_idx, commits, commit_idx, language_set, all_repo_data,
                 loc_all_languages, language_columns, gen_idx, prev_total_lines,
                 repo_file, disk, combined, commits_seen, exit_code>>
  /\ UNCHANGED <<aggVars, tagVars>>

\* main formats "Analysis complete! Results saved to {OUTPUT_CSV}": a name
\* that is not bound raises NameError, which leaves main through its finally
MainSummary ==
  /\ loc_pc = "summary"
  /\ exit_code' = IF "OUTPUT_CSV" \in GlobalNames THEN 0 ELSE 1
  /\ loc_pc' = "exited"
  /\ UNCHANGED <<REPOS, repo_idx, commits, commit_idx, language_set, all_repo_data,
                 loc_all_languages, language_columns, gen_idx, prev_total_lines,
                 repo_file, disk, combined, commits_seen>>
  /\ UNCHANGED <<aggVars, tagVars>>

LocRun ==
  \/ ProcRepoFails \/ ProcRepoOpened
  \/ Pass1CheckoutFails \/ Pass1ClocFails \/ Pass1Counted \/ Pass1Return
  \/ GenStart \/ GenRepoCloneFails \/ GenRepoOpenFails \/ GenRepoOpened
  \/ GenCommitFails \/ GenCommitWritten \/ GenRepoClose \/ GenEnd \/ MainSummary

\* ---- code_growth_total.main run after create_loc_csv, on the files it left
\* os.listdir finds no code_growth-*.csv file
PipeNoFiles ==
  /\ loc_pc = "exited"
  /\ agg_pc = "start"
  /\ DOMAIN disk = {}
  /\ agg_pc' = "returned"
  /\ UNCHANGED <<csv_files, languages, cur_rows, combined_data, all_languages,
                 sorted_dates, output, inputs>>
  /\ UNCHANGED <<locVars, tagVars>>

\* os.listdir lists the per-repository files, in some order
PipeListDir ==
  /\ loc_pc = "exited"
  /\ agg_pc = "start"
  /\ DOMAIN disk # {}
  /\ \E order \in [1..Cardinality(DOMAIN disk) -> DOMAIN disk] :
       /\ SeqToSet(order) = DOMAIN disk
       /\ csv_files' = order
  /\ agg_pc' = "files"
  /\ UNCHANGED <<languages, cur_rows, combined_data, all_languages,
                 sorted_dates, output, inputs>>
  /\ UNCHANGED <<locVars, tagVars>>

\* the next file is opened and parsed; next(reader) on an empty file raises
PipeOpen ==
  /\ agg_pc = "files"
  /\ csv_files # <<>>
  /\ LET records == ParseCSV(disk[Head(csv_files)])
     IN IF records = <<>>
        THEN /\ agg_pc' = "crashed"
             /\ UNCHANGED <<csv_files, languages, cur_rows, combined_data,
                            all_languages, sorted_dates, output, inputs>>
             /\ UNCHANGED <<locVars, tagVars>>
        ELSE OpenFile(SubSeq(Head(records), 7, Len(Head(records))), Tail(records))

\* --------------------------------------------- utils/git_utils.py
MaxRepos == 2
MaxCalls == 2

\* names of repositories, used as directory names relative to the working directory
RepoNames == {"a", "b"}

\* the directory the process is started in
StartDir == <<"work">>

\* the directories that may exist before the run
DirPool == {StartDir} \cup { Append(StartDir, n) : n \in RepoNames }

\* the path a relative name stands for
Resolve(from, path) == IF path = "." THEN from ELSE Append(from, path)

\* d is target or lies under it
Under(target, d) == Len(d) >= Len(target) /\ SubSeq(d, 1, Len(target)) = target

\* os.chdir(target): raises and changes nothing when target does not exist
Chdir(from, target, existing) ==
  IF target \in existing THEN [ok |-> TRUE, cwd |-> target]
  ELSE [ok |-> FALSE, cwd |-> from]

\* what running the removal command can do: on Unix-like systems rm runs and
\* exits with zero or not; on Windows rmdir is no executable file (it is a
\* builtin of the shell, and no shell is used), so the run raises
\* FileNotFoundError, unless some other rmdir is found, which fails on the
\* options /S /Q
RmOutcomes(os) == IF os = "nt" THEN {"not_found", "nonzero"} ELSE {"ok", "nonzero"}

\* clone_repository(repo_url, target, clean): result and the directories after
clone_repository(target, clean, existing, rm, clone_ok) ==
  LET must_clean == clean /\ target \in existing
      cleaned == IF must_clean /\ rm = "ok"
                 THEN { d \in existing : ~Under(target, d) } ELSE existing
  IN IF must_clean /\ rm = "not_found" THEN [result |-> "raised", dirs |-> existing]
     ELSE IF must_clean /\ rm = "nonzero" THEN [result |-> "False", dirs |-> existing]
     ELSE IF clone_ok THEN [result |-> "True", dirs |-> cleaned \cup {target}]
     ELSE [result |-> "False", dirs |-> cleaned]

\* a body that forgets the finally clause
InRepoDirNoFinally(from, repo_dir, existing, git_ok, value, failed) ==
  LET entered == Chdir(from, Resolve(from, repo_dir), existing)
  IN IF from \notin existing THEN [result |-> "raised", cwd |-> from]
     ELSE IF ~entered.ok THEN [result |-> "raised", cwd |-> entered.cwd]
     ELSE [result |-> IF git_ok THEN value ELSE failed, cwd |-> entered.cwd]

\* the body shared by create_tag, push_tag and get_current_branch:
\* original_dir = os.getcwd(); try: os.chdir(repo_dir); run git; return value
\* except CalledProcessError: return failed; finally: os.chdir(original_dir)
InRepoDir(from, repo_dir, existing, git_ok, value, failed) ==
  LET original_dir == from
      entered == Chdir(from, Resolve(from, repo_dir), existing)
      restored == Chdir(entered.cwd, original_dir, existing)
  IN IF from \notin existing THEN [result |-> "raised", cwd |-> from]
     ELSE IF ~restored.ok THEN [result |-> "raised", cwd |-> restored.cwd]
     ELSE IF ~entered.ok THEN [result |-> "raised", cwd |-> restored.cwd]
     ELSE [result |-> IF git_ok THEN value ELSE failed, cwd |-> restored.cwd]

create_tag(repo_dir, from, existing, git_ok) ==
  InRepoDir(from, repo_dir, existing, git_ok, "True", "False")

push_tag(repo_dir, from, existing, git_ok) ==
  InRepoDir(from, repo_dir, existing, git_ok, "True", "False")

get_current_branch(repo_dir, from, existing, git_ok) ==
  InRepoDir(from, repo_dir, existing, git_ok, "branch", "None")

\* one more call in the record of calls
Called(fn, at, repo_dir, result) ==
  Append(tag_calls, [fn |-> fn, at |-> at, repo_dir |-> repo_dir, result |-> result])

\* tag-release.py is not part of the run
TagOff ==
  /\ tag_pc = "off"
  /\ os_name = "posix"
  /\ tag_repos = <<>>
  /\ tag_idx = 1
  /\ cwd = StartDir
  /\ dirs = {StartDir}
  /\ tag_calls = <<>>

\* --------------------------------------------- gittools/tag-release.py
TagRepoLists == SeqsUpTo(RepoNames, MaxRepos) \ { <<>> }

\* the configuration is loaded and the tag name is read; directories of an
\* earlier run may be there
TagInit ==
  /\ tag_pc = "clone"
  /\ os_name \in {"posix", "nt"}
  /\ tag_repos \in TagRepoLists
  /\ tag_idx = 1
  /\ cwd = StartDir
  /\ dirs \in { {StartDir} \cup S : S \in SUBSET (DirPool \ {StartDir}) }
  /\ tag_calls = <<>>

\* where the loop goes after a call: on to the next step, on to the next
\* repository (continue), or out of the script with the exception
AfterCall(result, next_step) ==
  /\ tag_pc' = IF result = "raised" THEN "crashed"
               ELSE IF result = "True" THEN next_step ELSE "clone"
  /\ tag_idx' = IF result = "raised" \/ (result = "True" /\ next_step # "clone")
                THEN tag_idx ELSE tag_idx + 1

\* the loop body clones the repository, removing its directory first
TagClone ==
  /\ tag_pc = "clone"
  /\ tag_idx <= Len(tag_repos)
  /\ \E rm \in RmOutcomes(os_name), clone_ok \in BOOLEAN :
       LET r == clone_repository(Resolve(cwd, tag_repos[tag_idx]), TRUE, dirs, rm, clone_ok)
       IN /\ dirs' = r.dirs
          /\ tag_calls' = Called("clone_repository", tag_idx, tag_repos[tag_idx], r.result)
          /\ AfterCall(r.result, "create_tag")
  /\ UNCHANGED <<os_name, tag_repos, cwd>>
  /\ UNCHANGED <<aggVars, locVars>>

\* the clone succeeded: the tag is created
TagCreate ==
  /\ tag_pc = "create_tag"
  /\ \E git_ok \in BOOLEAN :
       LET r == create_tag(tag_repos[tag_idx], cwd, dirs, git_ok)
       IN /\ cwd' = r.cwd
          /\ tag_calls' = Called("create_tag", tag_idx, tag_repos[tag_idx], r.result)
          /\ AfterCall(r.result, "push_tag")
  /\ UNCHANGED <<os_name, tag_repos, dirs>>
  /\ UNCHANGED <<aggVars, locVars>>

\* the tag was created: it is pushed; the loop goes on to the next repository
TagPush ==
  /\ tag_pc = "push_tag"
  /\ \E git_ok \in BOOLEAN :
       LET r == push_tag(tag_repos[tag_idx], cwd, dirs, git_ok)
       IN /\ cwd' = r.cwd
          /\ tag_calls' = Called("push_tag", tag_idx, tag_repos[tag_idx], r.result)
          /\ AfterCall(r.result, "clone")
  /\ UNCHANGED <<os_name, tag_repos, dirs>>
  /\ UNCHANGED <<aggVars, locVars>>

\* the loop is over: the last message is printed
TagFinish ==
  /\ tag_pc = "clone"
  /\ tag_idx > Len(tag_repos)
  /\ tag_pc' = "done"
  /\ UNCHANGED <<os_name, tag_repos, tag_idx, cwd, dirs, tag_calls>>
  /\ UNCHANGED <<aggVars, locVars>>

\* ---- create_tag, push_tag and get_current_branch called by any caller
RepoDirArgs == {"."} \cup RepoNames

GitInit ==
  /\ tag_pc = "lib"
  /\ os_name = "posix"
  /\ tag_repos = <<>>
  /\ tag_idx = 1
  /\ cwd \in DirPool
  /\ dirs \in SUBSET DirPool
  /\ tag_calls = <<>>

LibCreateTag ==
  /\ tag_pc = "lib"
  /\ Len(tag_calls) < MaxCalls
  /\ \E repo_dir \in RepoDirArgs, git_ok \in BOOLEAN :
       LET r == create_tag(repo_dir, cwd, dirs, git_ok)
       IN /\ cwd' = r.cwd
          /\ tag_calls' = Called("create_tag", 0, repo_dir, r.result)
  /\ UNCHANGED <<tag_pc, os_name, tag_repos, tag_idx, dirs>>
  /\ UNCHANGED <<aggVars, locVars>>

LibPushTag ==
  /\ tag_pc = "lib"
  /\ Len(tag_calls) < MaxCalls
  /\ \E repo_dir \in RepoDirArgs, git_ok \in BOOLEAN :
       LET r == push_tag(repo_dir, cwd, dirs, git_ok)
       IN /\ cwd' = r.cwd
          /\ tag_calls' = Called("push_tag", 0, repo_dir, r.result)
  /\ UNCHANGED <<tag_pc, os_name, tag_repos, tag_idx, dirs>>
  /\ UNCHANGED <<aggVars, locVars>>

LibGetCurrentBranch ==
  /\ tag_pc = "lib"
  /\ Len(tag_calls) < MaxCalls
  /\ \E repo_dir \in RepoDirArgs, git_ok \in BOOLEAN :
       LET r == get_current_branch(repo_dir, cwd, dirs, git_ok)
       IN /\ cwd' = r.cwd
          /\ tag_calls' = Called("get_current_branch", 0, repo_dir, r.result)
  /\ UNCHANGED <<tag_pc, os_name, tag_repos, tag_idx, dirs>>
  /\ UNCHANGED <<aggVars, locVars>>

\* code_growth_total.main alone, on the input files it finds
Init == AggInit /\ LocOff /\ TagOff

Next == AggNoFiles \/ AggListDir \/ AggOpen \/ AggRun

Spec == Init /\ [][Next]_vars

\* create_loc_csv.main alone
InitLoc == AggInit /\ LocInit /\ TagOff

NextLoc == LocRun

SpecLoc == InitLoc /\ [][NextLoc]_vars

\* create_loc_csv.main on one repository, then code_growth_total.main
InitPipe == AggInit /\ LocInit /\ Len(REPOS) = 1 /\ TagOff

NextPipe == LocRun \/ PipeNoFiles \/ PipeListDir \/ PipeOpen \/ AggRun

SpecPipe == InitPipe /\ [][NextPipe]_vars

\* tag-release.py alone
InitTag == AggInit /\ LocOff /\ TagInit

NextTag == TagClone \/ TagCreate \/ TagPush \/ TagFinish

SpecTag == InitTag /\ [][NextTag]_vars

\* the functions of git_utils that change directory, called one after another
InitGit == AggInit /\ LocOff /\ GitInit

NextGit == LibCreateTag \/ LibPushTag \/ LibGetCurrentBranch

SpecGit == InitGit /\ [][NextGit]_vars

\* ------------------------------------------------------------- properties
RECURSIVE SumFun(_, _)
SumFun(f, S) ==
  IF S = {} THEN 0
  ELSE LET e == CHOOSE z \in S : TRUE IN f[e] + SumFun(f, S \ {e})

\* the input rows of at least 6 fields, as <<file, row>> positions
Entries ==
  UNION { { <<f, r>> : r \in { q \in 1..Len(inputs[f].rows) : Len(inputs[f].rows[q]) >= 6 } }
          : f \in 1..Len(inputs) }

EntryRow(e) == inputs[e[1]].rows[e[2]]
EntryDate(e) == EntryRow(e)[3]
EntryTotal(e) == IF EntryRow(e)[5] = <<>> THEN 0 ELSE ParseInt(EntryRow(e)[5])

\* columns of the entry's file that hold a value for language L
EntryColumns(e, L) ==
  { p \in 1..Len(inputs[e[1]].languages) :
      /\ inputs[e[1]].languages[p] = L
      /\ p + 6 <= Len(EntryRow(e))
      /\ EntryRow(e)[p + 6] # <<>> }

EntryValue(e, L) ==
  SumFun([p \in EntryColumns(e, L) |-> ParseInt(EntryRow(e)[p + 6])], EntryColumns(e, L))

EntriesOn(D) == { e \in Entries : EntryDate(e) = D }

InputLanguages ==
  UNION { { inputs[f].languages[i] : i \in 1..Len(inputs[f].languages) } : f \in 1..Len(inputs) }

OutRowsDated(D) == { i \in 1..Len(output.rows) : output.rows[i][1] = D }

\* C1: when the run is done, every date other than the anchor date that
\* occurs in an input row of at least 6 fields has exactly one output row,
\* whose total_loc is the sum of lines_of_code over all such rows of that date
\* in all files and whose value for every language column is the sum of that
\* language's values in those rows (0 where missing or empty).
C1_PureSum ==
  agg_pc = "done" =>
    \A D \in { EntryDate(e) : e \in Entries } \ {INITIAL_DATE} :
      /\ Cardinality(OutRowsDated(D)) = 1
      /\ \A i \in OutRowsDated(D) :
           /\ output.rows[i][2] = SumFun([e \in EntriesOn(D) |-> EntryTotal(e)], EntriesOn(D))
           /\ Len(output.rows[i]) = Len(output.header)
           /\ \A j \in 3..Len(output.header) :
                output.rows[i][j] =
                  SumFun([e \in EntriesOn(D) |-> EntryValue(e, output.header[j])], EntriesOn(D))

\* two rows of different files on one date, both with a non-zero total
C1_Witness ==
  /\ agg_pc = "done"
  /\ \E e1, e2 \in EntriesOn(D1) :
       /\ e1[1] # e2[1]
       /\ EntryTotal(e1) > 0 /\ EntryTotal(e2) > 0
       /\ \E L \in InputLanguages : EntryValue(e1, L) > 0 /\ EntryValue(e2, L) = 0

\* C2 (as stated): a run that finds no input file still ends with an output
\* made of the header without language columns and the anchor row alone.
C2_EmptyInputEmitsAnchor ==
  (agg_pc \in {"returned", "done"} /\ inputs = <<>>) =>
    /\ output.written
    /\ output.header = <<DATE, TOTAL_LOC>>
    /\ output.rows = << <<INITIAL_DATE, 0>> >>

\* C2 (amended): a run that finds no input file returns without writing
\* any output: no header and no anchor row; a run that writes output has
\* read at least one input file.
C2_EmptyInputWritesNothing ==
  /\ agg_pc = "returned" => (inputs = <<>> /\ output = NoOutput)
  /\ output.written => inputs # <<>>

C2_Witness == agg_pc = "returned"

\* C3: once the output is being written, its first data row is the only row
\* dated at the anchor date and holds 0 in every column; input rows dated at
\* the anchor date are in no output row: the totals of the output rows add up
\* to the totals of the input rows of other dates.
C3_AnchorRow ==
  /\ agg_pc \in {"write", "done"} =>
       /\ output.written
       /\ OutRowsDated(INITIAL_DATE) = {1}
       /\ Len(output.rows[1]) = Len(output.header)
       /\ \A j \in 2..Len(output.rows[1]) : output.rows[1][j] = 0
  /\ agg_pc = "done" =>
       LET others == { e \in Entries : EntryDate(e) # INITIAL_DATE }
       IN /\ SumFun([i \in 1..Len(output.rows) |-> output.rows[i][2]], 1..Len(output.rows))
               = SumFun([e \in others |-> EntryTotal(e)], others)
          /\ Len(output.rows) = 1 + Cardinality({ EntryDate(e) : e \in others })

\* an input row dated at the anchor date with non-zero values was read
C3_Witness ==
  /\ agg_pc = "done"
  /\ \E e \in EntriesOn(INITIAL_DATE) : EntryTotal(e) > 0
  /\ Len(output.rows) >= 2

AllIncreasing(from) ==
  \A i \in from..(Len(output.rows) - 1) : StrLess(output.rows[i][1], output.rows[i + 1][1])

\* C4 (as stated): the dates of the data rows, anchor row included, are
\* strictly increasing, also when an input date is earlier than the anchor.
C4_AllDatesIncreasing == agg_pc = "done" => AllIncreasing(1)

\* C4 (amended): the dates of the rows after the anchor row are strictly
\* increasing and none is the anchor date, so each date is in at most one
\* row; the anchor row is first whatever the dates are, and the whole
\* sequence is strictly increasing when no input row of at least 6 fields
\* is dated before the anchor date.
C4_DatesIncreasingAfterAnchor ==
  agg_pc = "done" =>
    /\ AllIncreasing(2)
    /\ \A i \in 2..Len(output.rows) : output.rows[i][1] # INITIAL_DATE
    /\ \A i, j \in 1..Len(output.rows) : i # j => output.rows[i][1] # output.rows[j][1]
    /\ (\A e \in Entries : ~StrLess(EntryDate(e), INITIAL_DATE)) => AllIncreasing(1)

\* a date before the anchor date and a date after it were written
C4_Witness ==
  /\ agg_pc = "done"
  /\ Len(output.rows) >= 3
  /\ \E e \in Entries : StrLess(EntryDate(e), INITIAL_DATE)
  /\ \E e \in Entries : StrLess(INITIAL_DATE, EntryDate(e))

\* C6: the output header is date, total_loc and then the union of the
\* languages of all input headers in strictly increasing code-point order;
\* every output row has 2 + |languages| fields, each language field is an
\* integer, and it is 0 when no input row of that date has a value for that
\* language. The header never changes once it is written.
C6_Columns ==
  agg_pc \in {"write", "done"} =>
    /\ SubSeq(output.header, 1, 2) = <<DATE, TOTAL_LOC>>
    /\ { output.header[j] : j \in 3..Len(output.header) } = InputLanguages
    /\ Len(output.header) = 2 + Cardinality(InputLanguages)
    /\ \A j \in 3..(Len(output.header) - 1) : StrLess(output.header[j], output.header[j + 1])
    /\ \A i \in 1..Len(output.rows) :
         /\ Len(output.rows[i]) = 2 + Cardinality(InputLanguages)
         /\ \A j \in 3..Len(output.header) :
              /\ output.rows[i][j] \in Int
              /\ (\A e \in EntriesOn(output.rows[i][1]) : EntryColumns(e, output.header[j]) = {})
                   => output.rows[i][j] = 0

C6_ColumnSet ==
  /\ []C6_Columns
  /\ [][output.written => (output'.written /\ output'.header = output.header)]_vars

\* two files with different language sets, and a row of a date to which only
\* the file without some language contributes
C6_Witness ==
  /\ agg_pc = "done"
  /\ Len(inputs) = 2
  /\ Cardinality(InputLanguages) = 3
  /\ \E i \in 2..Len(output.rows) : \E j \in 3..Len(output.header) :
       /\ output.rows[i][j] = 0
       /\ \E k \in 3..Len(output.header) : output.rows[i][k] > 0

WithoutShortRows(files) ==
  [f \in 1..Len(files) |->
     [languages |-> files[f].languages, rows |-> SelectSeq(files[f].rows, LAMBDA r : Len(r) >= 6)]]

\* C7: a row of fewer than 6 fields changes nothing: the run never aborts,
\* and its output is the output for the same files without those rows.
C7_ShortRowsSkipped ==
  /\ agg_pc # "crashed"
  /\ agg_pc = "done" => output = Aggregate(WithoutShortRows(inputs))

\* a short row was read before a row of at least 6 fields in the same file
C7_Witness ==
  /\ agg_pc = "done"
  /\ \E f \in 1..Len(inputs) : \E r \in 1..(Len(inputs[f].rows) - 1) :
       /\ Len(inputs[f].rows[r]) < 6
       /\ Len(inputs[f].rows[r + 1]) >= 6
       /\ inputs[f].rows[r + 1][3] # INITIAL_DATE

Orderings(n) ==
  { p \in [1..n -> 1..n] : \A i, j \in 1..n : i # j => p[i] # p[j] }

Reorder(s, p) == [i \in 1..Len(s) |-> s[p[i]]]

\* the files in the order fp, every file's rows in reverse or in the given order
Reordered(fp, rev) ==
  LET files == Reorder(inputs, fp)
  IN [f \in 1..Len(files) |->
        [languages |-> files[f].languages,
         rows |-> IF rev
                  THEN [r \in 1..Len(files[f].rows) |-> files[f].rows[Len(files[f].rows) + 1 - r]]
                  ELSE files[f].rows]]

\* C8: the output of a run is the output for every other order of the same
\* input files and of the rows inside them.
C8_OrderIndependent ==
  agg_pc = "done" =>
    \A fp \in Orderings(Len(inputs)) : \A rev \in BOOLEAN :
      output = Aggregate(Reordered(fp, rev))

\* two files with different headers were read, each with a row of one date
C8_Witness ==
  /\ agg_pc = "done"
  /\ Len(inputs) = 2
  /\ inputs[1].languages # inputs[2].languages
  /\ \E e1 \in Entries : \E e2 \in Entries :
       /\ e1[1] = 1 /\ e2[1] = 2
       /\ EntryDate(e1) = EntryDate(e2)
       /\ EntryDate(e1) # INITIAL_DATE

\* C5 (as stated): in every row of the aggregated output, total_loc is the
\* sum of the row's language values, when the input files are the files
\* that create_loc_csv.generate_csv left on disk.
C5_TotalIsSumOfLanguages ==
  agg_pc \in {"write", "done"} =>
    \A i \in 1..Len(output.rows) :
      output.rows[i][2] =
        SumFun([j \in 3..Len(output.rows[i]) |-> output.rows[i][j]], 3..Len(output.rows[i]))

\* C9 (as stated): whatever failed in the repositories and commits, the run
\* of create_loc_csv.main ends with its summary and exit code 0.
C9_ExitCodeZero == loc_pc = "exited" => exit_code = 0

\* the rows given to writerow for a repository: its initial row, then its commit rows
RowsWrittenFor(short) == SelectSeq(combined, LAMBDA row : row[1] = short)

\* generate_csv is done with the g-th repository of all_repo_data
RepoFinished(g) ==
  /\ g \in 1..Len(all_repo_data)
  /\ ShortName(all_repo_data[g].repo_name) \in DOMAIN disk
  /\ g < gen_idx \/ loc_pc \in {"summary", "exited"}

\* C10 (as stated): when generate_csv is done with a repository, its file
\* reads back as the header, the anchor row and one complete row for every
\* commit processed, in commit order.
C10_FileHoldsEveryRow ==
  \A g \in 1..Len(all_repo_data) :
    RepoFinished(g) =>
      ParseCSV(disk[ShortName(all_repo_data[g].repo_name)])
        = << CsvHeader(language_columns) >> \o RowsWrittenFor(ShortName(all_repo_data[g].repo_name))

\* C11 (as stated): a step taken on a commit, in either pass, only moves on
\* to the next commit of the same repository: the repository stays in the
\* hands of the same pass, and the rows written so far are left alone or
\* extended by the row of that commit alone.
C11_OnlyTheCommitIsSkipped ==
  [][ (loc_pc \in {"pass1", "pass2"} /\ commit_idx <= Len(commits)) =>
        /\ loc_pc' = loc_pc
        /\ commits' = commits
        /\ commit_idx' = commit_idx + 1
        /\ repo_idx' = repo_idx
        /\ gen_idx' = gen_idx
        /\ \/ combined' = combined
           \/ /\ loc_pc = "pass2"
              /\ Len(combined') = Len(combined) + 1
              /\ SubSeq(combined', 1, Len(combined)) = combined
              /\ combined'[Len(combined')][2] = SubSeq(commits[commit_idx].hexsha, 1, 7) ]_vars

\* the commit rows given to writerow for the g-th kept repository, after its
\* initial row
CommitRows(g) ==
  LET rows == RowsWrittenFor(ShortName(all_repo_data[g].repo_name))
  IN SubSeq(rows, 2, Len(rows))

\* C12: the delta of every written commit row is its total minus the total
\* of the commit row written before it for the same repository, and its
\* total itself when it is the first commit row of the repository, whichever
\* commits failed.
C12_DeltaAgainstPreviousWritten ==
  \A g \in 1..Len(all_repo_data) :
    \A k \in 1..Len(CommitRows(g)) :
      ParseInt(CommitRows(g)[k][6]) =
        ParseInt(CommitRows(g)[k][5])
          - (IF k = 1 THEN 0 ELSE ParseInt(CommitRows(g)[k - 1][5]))

\* the first of three commits failed in the second pass, the other two are
\* written and their totals differ
C12_Witness ==
  \E g \in 1..Len(all_repo_data) :
    /\ Len(all_repo_data[g].commits) = 3
    /\ Len(CommitRows(g)) = 2
    /\ CommitRows(g)[1][2] = SubSeq(Hexsha(2), 1, 7)
    /\ CommitRows(g)[2][6] # Str(0)
    /\ CommitRows(g)[2][6] # CommitRows(g)[2][5]

\* the commit of the g-th kept repository that a written row is the row of
CommitOfRow(g, row) ==
  CHOOSE commit \in SeqToSet(all_repo_data[g].commits) :
    SubSeq(commit.hexsha, 1, 7) = row[2]

\* the total and the language values of a row are the counts of its commit's
\* tree restricted to the languages of allowed
RowRestrictedTo(row, tree, allowed) ==
  /\ row[5] = Str(SumFun(tree, DOMAIN tree \cap allowed))
  /\ \A j \in 1..Len(language_columns) :
       row[6 + j] = Str(IF language_columns[j] \in DOMAIN tree \cap allowed
                        THEN tree[language_columns[j]] ELSE 0)

\* C14 (as stated): the values and the total of a commit row are the counts
\* restricted to the language set discovered for the row's own repository.
C14_RestrictedToOwnLanguages ==
  \A g \in 1..Len(all_repo_data) :
    \A k \in 1..Len(CommitRows(g)) :
      RowRestrictedTo(CommitRows(g)[k], CommitOfRow(g, CommitRows(g)[k]).tree,
                      SeqToSet(all_repo_data[g].languages))

\* C14 (corrected): the values and the total of a commit row are the counts
\* restricted to language_columns, the languages discovered in any kept
\* repository of the run.
C14_RestrictedToRunLanguages ==
  \A g \in 1..Len(all_repo_data) :
    \A k \in 1..Len(CommitRows(g)) :
      RowRestrictedTo(CommitRows(g)[k], CommitOfRow(g, CommitRows(g)[k]).tree,
                      SeqToSet(language_columns))

\* a row is written for a commit whose tree holds a language that was not
\* discovered in its own repository and was discovered in another one
C14_Witness ==
  \E g \in 1..Len(all_repo_data) :
    \E k \in 1..Len(CommitRows(g)) :
      \E lang \in DOMAIN CommitOfRow(g, CommitRows(g)[k]).tree :
        /\ lang \notin SeqToSet(all_repo_data[g].languages)
        /\ lang \in SeqToSet(language_columns)

\* the place of a step in the loop body
StepNo(fn) ==
  CASE fn = "clone_repository" -> 1
    [] fn = "create_tag" -> 2
    [] fn = "push_tag" -> 3

\* C13 (as stated): the calls of the run are, repository after repository in
\* list order, clone, then create_tag only after a successful clone, then
\* push_tag only after a successful create_tag; a step that fails is followed
\* by the clone of the next repository; and when the script has ended every
\* repository of the list has been attempted.
C13_EveryRepositoryInOrder ==
  /\ \A k \in 1..Len(tag_calls) :
       /\ tag_calls[k].at \in 1..Len(tag_repos)
       /\ tag_calls[k].repo_dir = tag_repos[tag_calls[k].at]
  /\ tag_calls # <<>> =>
       tag_calls[1].at = 1 /\ tag_calls[1].fn = "clone_repository"
  /\ \A k \in 1..(Len(tag_calls) - 1) :
       IF tag_calls[k].result = "True" /\ tag_calls[k].fn # "push_tag"
       THEN /\ tag_calls[k + 1].at = tag_calls[k].at
            /\ StepNo(tag_calls[k + 1].fn) = StepNo(tag_calls[k].fn) + 1
       ELSE /\ tag_calls[k + 1].at = tag_calls[k].at + 1
            /\ tag_calls[k + 1].fn = "clone_repository"
  /\ tag_pc \in {"done", "crashed"} =>
       \A i \in 1..Len(tag_repos) : \E k \in 1..Len(tag_calls) : tag_calls[k].at = i

\* C15: no call of create_tag, push_tag or get_current_branch changes the
\* working directory, whether it returns a value, returns its failure value
\* or raises because the change into repo_dir failed.
C15_WorkingDirectoryKept == [][cwd' = cwd]_vars

\* after a call that raised (the change into repo_dir failed) and a call
\* that went into a repository directory and ran git there
C15_Witness ==
  /\ tag_pc = "lib"
  /\ cwd \in dirs
  /\ \E k \in 1..Len(tag_calls) :
       tag_calls[k].result = "raised" /\ tag_calls[k].fn = "get_current_branch"
  /\ \E k \in 1..Len(tag_calls) :
       /\ tag_calls[k].result \in {"True", "False"}
       /\ tag_calls[k].repo_dir # "."

====
